---------------------------- MODULE Spec2Model ----------------------------
(***************************************************************************)
(* Model of yazi's FilesSorter (core/src/files/sorter.rs).                 *)
(*                                                                         *)
(* Characters are Unicode code points (integers), strings are sequences of *)
(* code points.  An identifier (Url) is the file name of an entry inside   *)
(* the listed directory: all entries of one listing share the parent path, *)
(* so comparing whole paths and comparing names agree.  An Option/Result   *)
(* value is a sequence of length 0 (None / Err) or 1 (Some / Ok).          *)
(*                                                                         *)
(* A File is a record [url, is_dir, created, modified, length]; is_dir,    *)
(* created and modified are what the sorter reads of File::meta.           *)
(***************************************************************************)
EXTENDS Integers, Sequences, FiniteSets, TLC

VARIABLES
    call,       \* the entry point the run exercises: "sort" or "natural_compare"
    pc,         \* "start" before the call, "done" after it returned
    sorter,     \* the FilesSorter: [by, sensitive, reverse, dir_first]
    items,      \* sort's `items: &mut Vec<File>`
    sizes,      \* sort's `sizes: &BTreeMap<Url, u64>` (a function on a set of urls)
    input,      \* the value of items when sort was called
    ret,        \* sort's return value, <<>> before it returned
    left,       \* natural_compare's `left`
    right,      \* natural_compare's `right`
    nsensitive, \* natural_compare's `sensitive`
    ordering    \* natural_compare's result, <<>> before it returned

vars == <<call, pc, sorter, items, sizes, input, ret, left, right, nsensitive, ordering>>

-----------------------------------------------------------------------------
(* Bounds of the model *)

MaxItems == 3

MaxStrLen == 3

-----------------------------------------------------------------------------
(* std::cmp::Ordering and the Ord instances the sorter uses *)

Ordering == {"Less", "Equal", "Greater"}

Reverse(o) == CASE o = "Less" -> "Greater" [] o = "Greater" -> "Less" [] OTHER -> "Equal"

CmpInt(a, b) == IF a < b THEN "Less" ELSE IF a > b THEN "Greater" ELSE "Equal"

CmpBool(a, b) == IF a = b THEN "Equal" ELSE IF b THEN "Less" ELSE "Greater"

RECURSIVE CmpSeq(_, _)
CmpSeq(a, b) ==
    IF a = <<>> /\ b = <<>> THEN "Equal"
    ELSE IF a = <<>> THEN "Less"
    ELSE IF b = <<>> THEN "Greater"
    ELSE IF Head(a) # Head(b) THEN CmpInt(Head(a), Head(b))
    ELSE CmpSeq(Tail(a), Tail(b))

Range(s) == {s[i] : i \in DOMAIN s}

-----------------------------------------------------------------------------
(* Character functions of std used by the sorter *)

is_whitespace(c) ==
    c \in (9..13) \cup {32, 133, 160, 5760} \cup (8192..8202)
          \cup {8232, 8233, 8239, 8287, 12288}

is_control(c) == c \in (0..31) \cup (127..159)

to_lowercase(c) ==
    IF c \in 65..90 THEN <<c + 32>>
    ELSE IF c \in (192..222) \ {215} THEN <<c + 32>>
    ELSE IF c = 304 THEN <<105, 775>>
    ELSE <<c>>

\* fault variant: no folding at all
to_ascii_lowercase_mut(s) == s

to_ascii_lowercase(s) == [i \in DOMAIN s |-> IF s[i] \in 65..90 THEN s[i] + 32 ELSE s[i]]

\* A code point above 1114111 stands for a byte that is not valid UTF-8.
to_string_lossy(url) == [i \in DOMAIN url |-> IF url[i] > 1114111 THEN 65533 ELSE url[i]]

RECURSIVE FlatMapLowercase(_)
FlatMapLowercase(s) ==
    IF s = <<>> THEN <<>> ELSE to_lowercase(Head(s)) \o FlatMapLowercase(Tail(s))

-----------------------------------------------------------------------------
(* natural_compare and natord::compare_iter *)

\* fault variant: the zero-width characters and U+FEFF are not skipped
skip_mut(c) == is_whitespace(c) \/ is_control(c)

skip(c) == is_whitespace(c) \/ is_control(c) \/ c \in 8203..8205 \/ c = 65279

\* fault variant: no character is a digit (plain character comparison)
to_digit_mut(c) == <<>>

to_digit(c) == IF c \in 48..57 THEN <<c - 48>> ELSE <<>>

\* `ll` / `rr` of compare_iter: the digit of the character at position i, if any
DigitAt(s, i) == IF i <= Len(s) THEN to_digit(s[i]) ELSE <<>>

RECURSIVE SkipFrom(_, _)
SkipFrom(s, i) == IF i <= Len(s) /\ skip(s[i]) THEN SkipFrom(s, i + 1) ELSE i

RECURSIVE NonDigits(_, _, _, _)
RECURSIVE DigitsLeft(_, _, _, _)
RECURSIVE DigitsRight(_, _, _, _, _)

\* the 'digits_left loop: left-aligned (fractional) matching, entered after a 0
DigitsLeft(L, R, i, j) ==
    LET ll == DigitAt(L, i)
        rr == DigitAt(R, j)
    IN  IF ll # <<>> /\ rr # <<>>
        THEN IF ll[1] # rr[1] THEN CmpInt(ll[1], rr[1]) ELSE DigitsLeft(L, R, i + 1, j + 1)
        ELSE IF ll # <<>> THEN "Greater"
        ELSE IF rr # <<>> THEN "Less"
        ELSE NonDigits(L, R, i, j)

\* the 'digits_right loop: right-aligned matching, the longer run wins
DigitsRight(L, R, i, j, lastcmp) ==
    LET ll == DigitAt(L, i)
        rr == DigitAt(R, j)
    IN  IF ll # <<>> /\ rr # <<>>
        THEN DigitsRight(L, R, i + 1, j + 1,
                         IF lastcmp = "Equal" THEN CmpInt(ll[1], rr[1]) ELSE lastcmp)
        ELSE IF ll # <<>> THEN "Greater"
        ELSE IF rr # <<>> THEN "Less"
        ELSE IF lastcmp # "Equal" THEN lastcmp
        ELSE NonDigits(L, R, i, j)

\* the 'nondigits loop, with the current characters at positions i0 and j0
NonDigits(L, R, i0, j0) ==
    LET i == SkipFrom(L, i0)
        j == SkipFrom(R, j0)
    IN  IF i <= Len(L) /\ j <= Len(R)
        THEN LET ll == DigitAt(L, i)
                 rr == DigitAt(R, j)
             IN  IF ll # <<>> /\ rr # <<>>
                 THEN IF ll[1] = 0 \/ rr[1] = 0
                      THEN IF ll[1] # rr[1] THEN CmpInt(ll[1], rr[1])
                           ELSE DigitsLeft(L, R, i + 1, j + 1)
                      ELSE DigitsRight(L, R, i + 1, j + 1, CmpInt(ll[1], rr[1]))
                 ELSE IF L[i] # R[j] THEN CmpInt(L[i], R[j])
                 ELSE NonDigits(L, R, i + 1, j + 1)
        ELSE IF i <= Len(L) THEN "Greater"
        ELSE IF j <= Len(R) THEN "Less"
        ELSE "Equal"

compare_iter(L, R) == NonDigits(L, R, 1, 1)

natural_compare(l, r, sensitive) ==
    IF sensitive THEN compare_iter(l, r)
    ELSE compare_iter(FlatMapLowercase(l), FlatMapLowercase(r))

-----------------------------------------------------------------------------
(* FilesSorter::promote and FilesSorter::cmp *)

promote(s, a, b) == IF s.dir_first THEN CmpBool(b.is_dir, a.is_dir) ELSE "Equal"

\* `a` and `b` are keys of one Ord type, each written as a sequence of integers
cmp(s, a, b, p) ==
    IF p # "Equal" THEN p
    ELSE IF s.reverse THEN CmpSeq(b, a) ELSE CmpSeq(a, b)

-----------------------------------------------------------------------------
(* The comparison closures of FilesSorter::sort *)

AlphabeticalClosure(s, a, b) ==
    IF s.sensitive THEN cmp(s, a.url, b.url, promote(s, a, b))
    ELSE cmp(s, to_ascii_lowercase(a.url), to_ascii_lowercase(b.url), promote(s, a, b))

\* fault variant: promotion decided before the timestamps are looked at
CreatedClosure_mut(s, a, b) ==
    IF promote(s, a, b) # "Equal" THEN promote(s, a, b)
    ELSE IF a.created # <<>> /\ b.created # <<>> THEN cmp(s, a.created, b.created, "Equal")
    ELSE "Equal"

CreatedClosure(s, a, b) ==
    IF a.created # <<>> /\ b.created # <<>>
    THEN cmp(s, a.created, b.created, promote(s, a, b))
    ELSE "Equal"

ModifiedClosure(s, a, b) ==
    IF a.modified # <<>> /\ b.modified # <<>>
    THEN cmp(s, a.modified, b.modified, promote(s, a, b))
    ELSE "Equal"

\* BTreeMap::get(..).copied()
Get(m, k) == IF k \in DOMAIN m THEN <<m[k]>> ELSE <<>>

\* fault variant: the size table is consulted for non-directories too
ResolvedSize_mut(sz, a) ==
    LET aa == Get(sz, a.url)
    IN  IF aa # <<>> THEN aa[1] ELSE a.length

\* `aa.unwrap_or(a.length)` of the Size arm
ResolvedSize(sz, a) ==
    LET aa == IF a.is_dir THEN Get(sz, a.url) ELSE <<>>
    IN  IF aa # <<>> THEN aa[1] ELSE a.length

SizeClosure(s, sz, a, b) ==
    cmp(s, <<ResolvedSize(sz, a)>>, <<ResolvedSize(sz, b)>>, promote(s, a, b))

\* the index comparator of sort_naturally; ea and eb are entities[a] and entities[b]
NaturalClosure(s, ea, eb) ==
    LET p == promote(s, ea[2], eb[2])
    IN  IF p # "Equal" THEN p
        ELSE LET o == IF s.sensitive THEN natural_compare(ea[1], eb[1], TRUE)
                      ELSE natural_compare(ea[1], eb[1], FALSE)
             IN  IF s.reverse THEN Reverse(o) ELSE o

Entity(file) == <<to_string_lossy(file.url), file>>

\* The comparison sort applies to two entries under the configured mode
Compare(s, sz, a, b) ==
    CASE s.by = "Alphabetical" -> AlphabeticalClosure(s, a, b)
      [] s.by = "Created" -> CreatedClosure(s, a, b)
      [] s.by = "Modified" -> ModifiedClosure(s, a, b)
      [] s.by = "Natural" -> NaturalClosure(s, Entity(a), Entity(b))
      [] s.by = "Size" -> SizeClosure(s, sz, a, b)

-----------------------------------------------------------------------------
(* slice::sort_unstable_by.  For slices of at most 20 elements the standard  *)
(* library sorts by insertion: each element is shifted left while the        *)
(* comparator says it is less than its left neighbour.                       *)

RECURSIVE InsertTail(_, _, _)
InsertTail(sorted, x, c) ==
    IF sorted = <<>> \/ c[x, sorted[Len(sorted)]] # "Less" THEN Append(sorted, x)
    ELSE Append(InsertTail(SubSeq(sorted, 1, Len(sorted) - 1), x, c), sorted[Len(sorted)])

\* `c` is the comparator closure, tabulated over the pairs of elements of the slice
RECURSIVE SortUnstableBy(_, _)
SortUnstableBy(v, c) ==
    IF Len(v) <= 1 THEN v
    ELSE InsertTail(SortUnstableBy(SubSeq(v, 1, Len(v) - 1), c), v[Len(v)], c)

Pairs(v) == Range(v) \X Range(v)

-----------------------------------------------------------------------------
(* FilesSorter::sort_naturally *)

Dummy(its) ==
    [url |-> <<>>, is_dir |-> its[1].is_dir, created |-> its[1].created,
     modified |-> its[1].modified, length |-> 0]

\* fault variant: pushes the slot's content after the replacement
RECURSIVE ReplaceLoop_mut(_, _, _, _)
ReplaceLoop_mut(its, indices, dummy, new) ==
    IF indices = <<>> THEN new
    ELSE ReplaceLoop_mut([its EXCEPT ![Head(indices)] = dummy], Tail(indices), dummy,
                         Append(new, [its EXCEPT ![Head(indices)] = dummy][Head(indices)]))

\* for i in indices { new.push(mem::replace(&mut items[i], dummy.clone())) }
RECURSIVE ReplaceLoop(_, _, _, _)
ReplaceLoop(its, indices, dummy, new) ==
    IF indices = <<>> THEN new
    ELSE ReplaceLoop([its EXCEPT ![Head(indices)] = dummy], Tail(indices), dummy,
                     Append(new, its[Head(indices)]))

sort_naturally(s, its) ==
    LET entities == [i \in DOMAIN its |-> Entity(its[i])]
        indices == SortUnstableBy([i \in DOMAIN its |-> i],
                                  [p \in (DOMAIN its) \X (DOMAIN its) |->
                                      NaturalClosure(s, entities[p[1]], entities[p[2]])])
    IN  ReplaceLoop(its, indices, Dummy(its), <<>>)

-----------------------------------------------------------------------------
(* FilesSorter::sort: the resulting items and the returned flag *)

\* fault variant: returns whether the order changed
sort_mut(s, its, sz) ==
    LET out == IF its = <<>> THEN its
               ELSE IF s.by = "Natural" THEN sort_naturally(s, its)
               ELSE SortUnstableBy(its, [p \in Pairs(its) |-> Compare(s, sz, p[1], p[2])])
    IN  [items |-> out, ret |-> out # its]

sort(s, its, sz) ==
    IF its = <<>> THEN [items |-> its, ret |-> FALSE]
    ELSE [items |->
            CASE s.by = "Alphabetical" ->
                    SortUnstableBy(its, [p \in Pairs(its) |-> AlphabeticalClosure(s, p[1], p[2])])
              [] s.by = "Created" ->
                    SortUnstableBy(its, [p \in Pairs(its) |-> CreatedClosure(s, p[1], p[2])])
              [] s.by = "Modified" ->
                    SortUnstableBy(its, [p \in Pairs(its) |-> ModifiedClosure(s, p[1], p[2])])
              [] s.by = "Natural" -> sort_naturally(s, its)
              [] s.by = "Size" ->
                    SortUnstableBy(its, [p \in Pairs(its) |-> SizeClosure(s, sz, p[1], p[2])]),
          ret |-> TRUE]

-----------------------------------------------------------------------------
(* Inputs *)

SortBy == {"Alphabetical", "Created", "Modified", "Natural", "Size"}

Sorters == [by : SortBy, sensitive : BOOLEAN, reverse : BOOLEAN, dir_first : BOOLEAN]

\* "apple", "Banana", "a", "A", and the Latin-1 letters E-acute (upper, lower), a-grave
AlphaNames ==
    {<<97, 112, 112, 108, 101>>, <<66, 97, 110, 97, 110, 97>>, <<97>>, <<65>>,
     <<201>>, <<233>>, <<224>>}

\* "file1", "file2", "file10", "File3", and "f" followed by a byte that is not UTF-8
NaturalNames ==
    {<<102, 105, 108, 101, 49>>, <<102, 105, 108, 101, 50>>,
     <<102, 105, 108, 101, 49, 48>>, <<70, 105, 108, 101, 51>>, <<102, 1114367>>}

\* SystemTime values; <<>> is a timestamp the platform cannot give
Timestamps == {<<>>, <<1>>, <<2>>}

Lengths == {0, 10}

TableSizes == {500}

\* "a", "b", "c", ...: the name of the entry at position i of the input
PosName(i) == <<96 + i>>

File(u, d, c, m, l) == [url |-> u, is_dir |-> d, created |-> c, modified |-> m, length |-> l]

NamedFiles(names) == {File(u, d, <<1>>, <<1>>, 0) : u \in names, d \in BOOLEAN}

DistinctUrls(its) == \A i, j \in DOMAIN its : i # j => its[i].url # its[j].url

NamedInputs(names) ==
    {its \in UNION {[1..k -> NamedFiles(names)] : k \in 0..MaxItems} : DistinctUrls(its)}

PositionalInputs(attrs) ==
    UNION {{[i \in 1..k |-> File(PosName(i), f[i].is_dir, f[i].created, f[i].modified,
                                 f[i].length)] : f \in [1..k -> attrs]} : k \in 0..MaxItems}

InputsFor(by) ==
    CASE by = "Alphabetical" -> NamedInputs(AlphaNames)
      [] by = "Natural" -> NamedInputs(NaturalNames)
      [] by = "Created" ->
            PositionalInputs([is_dir : BOOLEAN, created : Timestamps, modified : {<<1>>},
                              length : {0}])
      [] by = "Modified" ->
            PositionalInputs([is_dir : BOOLEAN, created : {<<1>>}, modified : Timestamps,
                              length : {0}])
      [] by = "Size" ->
            PositionalInputs([is_dir : BOOLEAN, created : {<<1>>}, modified : {<<1>>},
                              length : Lengths])

SizeTablesFor(by, its) ==
    IF by = "Size"
    THEN UNION {[D -> TableSizes] : D \in SUBSET {its[i].url : i \in DOMAIN its}}
    ELSE {<<>>}

\* "a", "0", "1" and U+200B (zero width space)
NatAlphabet == {97, 48, 49, 8203}

\* "A", "a2", "a02", "a10", "A10", "ab", "a<U+200B>b", "a b", "1 0", "I-dot-above"
ExtraStrings ==
    {<<65>>, <<97, 50>>, <<97, 48, 50>>, <<97, 49, 48>>, <<65, 49, 48>>, <<97, 98>>,
     <<97, 8203, 98>>, <<97, 32, 98>>, <<49, 32, 48>>, <<304>>}

Strings == UNION {[1..k -> NatAlphabet] : k \in 0..MaxStrLen} \cup ExtraStrings

-----------------------------------------------------------------------------
(* The state machine: one call of sort, or one call of natural_compare *)

InitSort ==
    /\ call = "sort"
    /\ pc = "start"
    /\ sorter \in Sorters
    /\ items \in InputsFor(sorter.by)
    /\ sizes \in SizeTablesFor(sorter.by, items)
    /\ input = items
    /\ ret = <<>>
    /\ left = <<>>
    /\ right = <<>>
    /\ nsensitive = FALSE
    /\ ordering = <<>>

InitNaturalCompare ==
    /\ call = "natural_compare"
    /\ pc = "start"
    /\ sorter = [by |-> "Natural", sensitive |-> FALSE, reverse |-> FALSE, dir_first |-> FALSE]
    /\ items = <<>>
    /\ sizes = <<>>
    /\ input = <<>>
    /\ ret = <<>>
    /\ left \in Strings
    /\ right = <<>>
    /\ nsensitive \in BOOLEAN
    /\ ordering = <<>>

Init == InitSort \/ InitNaturalCompare

Sort ==
    /\ call = "sort"
    /\ pc = "start"
    /\ LET r == sort(sorter, items, sizes)
       IN  /\ items' = r.items
           /\ ret' = <<r.ret>>
    /\ pc' = "done"
    /\ UNCHANGED <<call, sorter, sizes, input, left, right, nsensitive, ordering>>

NaturalCompare ==
    /\ call = "natural_compare"
    /\ pc = "start"
    /\ \E r \in Strings :
          /\ right' = r
          /\ ordering' = <<natural_compare(left, r, nsensitive)>>
    /\ pc' = "done"
    /\ UNCHANGED <<call, sorter, items, sizes, input, ret, left, nsensitive>>

Next == Sort \/ NaturalCompare

Spec == Init /\ [][Next]_vars

-----------------------------------------------------------------------------
(* Vocabulary of the properties *)

SortDone == call = "sort" /\ pc = "done"

NaturalCompareDone == call = "natural_compare" /\ pc = "done"

Count(s, e) == Cardinality({i \in DOMAIN s : s[i] = e})

IsPermutation(a, b) ==
    /\ Len(a) = Len(b)
    /\ \A e \in Range(a) \cup Range(b) : Count(a, e) = Count(b, e)

NumDirs(its) == Cardinality({i \in DOMAIN its : its[i].is_dir})

Urls(its) == [i \in DOMAIN its |-> its[i].url]

\* The ordering of a pair whose mode keys compare as `o` in forward order:
\* directories first when enabled, then the key comparison, reversed on demand
Expected(a, b, o) ==
    IF sorter.dir_first /\ a.is_dir # b.is_dir
    THEN (IF a.is_dir THEN "Less" ELSE "Greater")
    ELSE IF sorter.reverse THEN Reverse(o) ELSE o

IsDigit(c) == c \in 48..57

\* Where the digit run that ends the string starts (Len(s) + 1 if there is none)
RunStart(s) ==
    CHOOSE i \in 1..(Len(s) + 1) :
        /\ \A k \in i..Len(s) : IsDigit(s[k])
        /\ (i = 1 \/ ~IsDigit(s[i - 1]))

Prefix(s) == SubSeq(s, 1, RunStart(s) - 1)

Run(s) == SubSeq(s, RunStart(s), Len(s))

RECURSIVE Value(_)
Value(d) ==
    IF d = <<>> THEN 0 ELSE 10 * Value(SubSeq(d, 1, Len(d) - 1)) + (d[Len(d)] - 48)

LeadingZero(d) == Len(d) > 1 /\ d[1] = 48

\* The characters the natural comparator is said to skip
Skipped(c) ==
    c \in (0..32) \cup (127..160) \cup {5760, 8232, 8233, 8239, 8287, 12288, 65279}
          \cup (8192..8205)

Strip(s) == SelectSeq(s, LAMBDA c : ~Skipped(c))

\* Some skipped characters stand between two digits of s
SplitsRun(s) ==
    \E i, j \in DOMAIN s :
        /\ i + 1 < j
        /\ IsDigit(s[i])
        /\ IsDigit(s[j])
        /\ \A k \in (i + 1)..(j - 1) : Skipped(s[k])

AsciiFolded(s) == [i \in DOMAIN s |-> IF s[i] >= 65 /\ s[i] <= 90 THEN s[i] + 32 ELSE s[i]]

NoPromotion == ~sorter.dir_first \/ \A i, j \in DOMAIN input : input[i].is_dir = input[j].is_dir

-----------------------------------------------------------------------------
(* C1 *)

\* C1: after sort returns on a non-empty sequence, items is a permutation of the
\* input (same length, same multiset of entries), and in Natural mode the
\* placeholder written into vacated slots is not in the final sequence.
C1_Permutation ==
    (SortDone /\ input # <<>>) =>
        /\ IsPermutation(items, input)
        /\ sorter.by = "Natural" =>
              \A i \in DOMAIN items : items[i] # Dummy(input) /\ items[i].url # <<>>

C1_Witness ==
    /\ SortDone
    /\ sorter.by = "Natural"
    /\ Len(input) >= 3
    /\ items # input
    /\ IsPermutation(items, input)

-----------------------------------------------------------------------------
(* C2 *)

\* C2: with directories-first enabled, in every mode and for every input, the
\* first k entries of the result (k = number of directories) are exactly the
\* directories.
C2_DirsFirst ==
    (SortDone /\ sorter.dir_first) =>
        \A i \in DOMAIN items : items[i].is_dir <=> i <= NumDirs(input)

-----------------------------------------------------------------------------
(* C3 *)

\* C3: with directories-first enabled, sorting the same input with reverse
\* toggled puts the same set of entries before the directory/file boundary.
C3_SameBoundary ==
    (SortDone /\ sorter.dir_first) =>
        LET other == sort([sorter EXCEPT !.reverse = ~sorter.reverse], input, sizes).items
            k == NumDirs(input)
        IN  {items[i] : i \in 1..k} = {other[i] : i \in 1..k}

-----------------------------------------------------------------------------
(* C4 *)

\* C4: sort returns false exactly when the sequence is empty, and then leaves
\* it unchanged; for every non-empty sequence it returns true.
C4_FalseIffEmpty ==
    SortDone =>
        /\ ret = <<FALSE>> <=> input = <<>>
        /\ input = <<>> => items = input
        /\ input # <<>> => ret = <<TRUE>>

C4_Witness == SortDone /\ input = <<>> /\ items = <<>> /\ ret = <<FALSE>>

-----------------------------------------------------------------------------
(* C5 *)

SizeKey(e) == IF e.is_dir /\ e.url \in DOMAIN sizes THEN sizes[e.url] ELSE e.length

\* C5: in Size mode the key of a directory is its size-table value if present,
\* else its own length; the key of a non-directory is always its own length;
\* entries are compared (and the result ordered) by promotion, then by numeric
\* comparison of these keys, reversed if reverse is set.
C5_SizeKeys ==
    (SortDone /\ sorter.by = "Size") =>
        /\ \A a, b \in Range(input) :
              Compare(sorter, sizes, a, b) = Expected(a, b, CmpInt(SizeKey(a), SizeKey(b)))
        /\ \A i, j \in DOMAIN items :
              i < j => Expected(items[i], items[j],
                                CmpInt(SizeKey(items[i]), SizeKey(items[j]))) # "Greater"

C5_Witness ==
    /\ SortDone
    /\ sorter.by = "Size"
    /\ ~sorter.dir_first
    /\ ~sorter.reverse
    /\ items # input
    /\ \E i, j \in DOMAIN items :
          /\ i < j
          /\ ~items[i].is_dir /\ items[i].length = 10 /\ items[i].url \in DOMAIN sizes
          /\ items[j].is_dir /\ items[j].length = 0 /\ Get(sizes, items[j].url) = <<500>>

-----------------------------------------------------------------------------
(* C6 *)

\* C6 (as claimed): in case-insensitive Alphabetical mode the comparison equals
\* the comparison of the identifiers folded with the full Unicode lowercase
\* mapping.
C6_UnicodeFold ==
    (SortDone /\ sorter.by = "Alphabetical" /\ ~sorter.sensitive) =>
        \A a, b \in Range(input) :
            Compare(sorter, sizes, a, b)
                = Expected(a, b, CmpSeq(FlatMapLowercase(a.url), FlatMapLowercase(b.url)))

\* C6 (amended): in case-insensitive Alphabetical mode the comparison equals the
\* comparison of the identifiers with the ASCII letters A-Z folded to a-z and
\* every other character kept; the result is ordered by it, and "Banana",
\* "apple" come out as "apple", "Banana".
C6_AsciiFold ==
    (SortDone /\ sorter.by = "Alphabetical" /\ ~sorter.sensitive) =>
        /\ \A a, b \in Range(input) :
              Compare(sorter, sizes, a, b)
                  = Expected(a, b, CmpSeq(AsciiFolded(a.url), AsciiFolded(b.url)))
        /\ \A i, j \in DOMAIN items :
              i < j => Expected(items[i], items[j],
                                CmpSeq(AsciiFolded(items[i].url),
                                       AsciiFolded(items[j].url))) # "Greater"
        /\ (/\ Range(Urls(input)) = {<<66, 97, 110, 97, 110, 97>>, <<97, 112, 112, 108, 101>>}
            /\ NoPromotion
            /\ ~sorter.reverse)
           => Urls(items) = <<<<97, 112, 112, 108, 101>>, <<66, 97, 110, 97, 110, 97>>>>

C6_Witness ==
    /\ SortDone
    /\ sorter.by = "Alphabetical"
    /\ ~sorter.sensitive
    /\ ~sorter.reverse
    /\ Urls(input) = <<<<66, 97, 110, 97, 110, 97>>, <<97, 112, 112, 108, 101>>>>
    /\ Urls(items) = <<<<97, 112, 112, 108, 101>>, <<66, 97, 110, 97, 110, 97>>>>

-----------------------------------------------------------------------------
(* C7 *)

\* natural_compare was applied to two strings with the same prefix, each ending
\* in a digit run, the left run denoting the smaller number
C7_Case ==
    /\ NaturalCompareDone
    /\ Run(left) # <<>>
    /\ Run(right) # <<>>
    /\ Prefix(left) = Prefix(right)
    /\ Value(Run(left)) < Value(Run(right))

\* Natural mode, forward, sorts "file2", "file10", "file1" (in any input order)
\* to "file1", "file2", "file10"
C7_Example ==
    (/\ SortDone
     /\ sorter.by = "Natural"
     /\ ~sorter.reverse
     /\ NoPromotion
     /\ Range(Urls(input)) = {<<102, 105, 108, 101, 49>>, <<102, 105, 108, 101, 50>>,
                              <<102, 105, 108, 101, 49, 48>>})
    => Urls(items) = <<<<102, 105, 108, 101, 49>>, <<102, 105, 108, 101, 50>>,
                       <<102, 105, 108, 101, 49, 48>>>>

-----------------------------------------------------------------------------
(* C8 *)

-----------------------------------------------------------------------------
(* C9 *)

\* C9: in every mode and configuration the comparison sort uses is a weak
\* ordering over the entries: compare(a, b) is the inverse of compare(b, a),
\* "less" is transitive and "equal" is transitive.
C9_WeakOrdering ==
    SortDone =>
        \A a, b, c \in Range(input) :
            LET ab == Compare(sorter, sizes, a, b)
                bc == Compare(sorter, sizes, b, c)
                ac == Compare(sorter, sizes, a, c)
            IN  /\ ab = Reverse(Compare(sorter, sizes, b, a))
                /\ (ab = "Less" /\ bc = "Less") => ac = "Less"
                /\ (ab = "Equal" /\ bc = "Equal") => ac = "Equal"

-----------------------------------------------------------------------------
(* C10 *)

Stamp(e) == IF sorter.by = "Created" THEN e.created ELSE e.modified

\* C10: in Created and Modified modes a pair with an unobtainable timestamp on
\* either side compares Equal; a pair with both timestamps is ordered by
\* promotion, then by the timestamps (reversed if reverse is set); sort
\* completes and returns true on such inputs.
C10_TimestampCompare ==
    (SortDone /\ sorter.by \in {"Created", "Modified"}) =>
        /\ input # <<>> => ret = <<TRUE>>
        /\ \A a, b \in Range(input) :
              Compare(sorter, sizes, a, b)
                  = IF Stamp(a) = <<>> \/ Stamp(b) = <<>> THEN "Equal"
                    ELSE Expected(a, b, CmpInt(Stamp(a)[1], Stamp(b)[1]))

C10_Witness ==
    /\ SortDone
    /\ sorter.by = "Created"
    /\ ret = <<TRUE>>
    /\ \E i, j \in DOMAIN input :
          /\ input[i].created = <<>>
          /\ input[j].created # <<>>
          /\ input[i].is_dir # input[j].is_dir
    /\ items # input

=============================================================================
